---- MODULE Spec2Model ----
(***************************************************************************)
(* pg-mock: an in-memory mock of a PostgreSQL client.                      *)
(*                                                                         *)
(* PgMock (the connection controller) owns a main Session and, between     *)
(* "begin" and "commit"/"rollback", a transaction Session.  A Session owns *)
(* a table map and a statement history and executes select / insert /      *)
(* delete / drop statements.                                               *)
(*                                                                         *)
(* The SQL parser (node-sql-parser) is an external library: a statement is *)
(* represented by its SQL text and Astify gives the tree the parser        *)
(* returns for it.  Scalars are naturals; Undefined stands for the         *)
(* JavaScript value undefined.  The caller awaits every call, so each      *)
(* call is one step.                                                       *)
(***************************************************************************)
EXTENDS Integers, Sequences, FiniteSets, TLC

VARIABLES
    main_session,   \* PgMock.#main_session
    transaction,    \* PgMock.#transaction
    result,         \* the latest call and its outcome: what it returned or that it threw
    since_begin     \* observer: the main table map at the latest "begin" and the
                    \* statements issued in that transaction since

vars == <<main_session, transaction, result, since_begin>>

\* ---------------------------------------------------------------- bounds
\* Longest statement history the main session may reach through statements
\* issued one by one, the statements of an open transaction counted in; a
\* commit may start while the main history is shorter than this (a commit
\* that fails can be repeated and replays its prefix again).
MaxHistory == 3

\* Longest history of the session that is driven on its own (SpecSession).
MaxStatements == 3

\* Largest limit and largest offset passed as parameters.
MaxLimit == 3

MaxOffset == 2

\* ------------------------------------------------------------ JS values
\* The JavaScript value undefined (literals are naturals).
Undefined == -1

\* +name (Number(name)) for a placeholder name that is not numeric.
NaN == -2

Min(a, b) == IF a < b THEN a ELSE b

Max(a, b) == IF a > b THEN a ELSE b

\* An empty Map / an empty object.
EmptyMap == [k \in {} |-> 0]

\* Map.set / obj[key] = value
MapSet(map, key, value) ==
    [k \in (DOMAIN map) \cup {key} |-> IF k = key THEN value ELSE map[k]]

\* Map.delete
MapDelete(map, key) == [k \in (DOMAIN map) \ {key} |-> map[k]]

\* ---------------------------------------------------------------- parser
NoNode == [type |-> "none"]

Num(n) == [type |-> "number", value |-> n]

Var(n) == [type |-> "var", name |-> n]

Col(column) == [type |-> "column_ref", table |-> "", column |-> column]

\* A column reference qualified with its table: table.column
ColOf(table, column) == [type |-> "column_ref", table |-> table, column |-> column]

Bin(operator, left, right) ==
    [type |-> "binary_expr", operator |-> operator, left |-> left, right |-> right]

Star == <<[expr |-> Col("*"), as |-> ""]>>

From(table) == <<[table |-> table, join |-> ""]>>

SelectAst(columns, table, where, limit) ==
    [type |-> "select", columns |-> columns, from |-> From(table),
     where |-> where, orderby |-> <<>>, limit |-> limit]

\* One key of an ORDER BY: its expression and "ASC" or "DESC".
OrderKey(expr, type) == [expr |-> expr, type |-> type]

\* select * from table order by ...
SelectOrdered(table, orderby) ==
    [type |-> "select", columns |-> Star, from |-> From(table),
     where |-> NoNode, orderby |-> orderby, limit |-> NoNode]

\* A joined entry of a FROM chain: table, join kind and ON expression.
Join(table, join, on) == [table |-> table, join |-> join, on |-> on]

\* select columns from from[0] join from[1] on ... (join from[2] on ...)
SelectJoin(columns, from) ==
    [type |-> "select", columns |-> columns, from |-> from,
     where |-> NoNode, orderby |-> <<>>, limit |-> NoNode]

InsertAst(table, columns, values) ==
    [type |-> "insert", table |-> <<[table |-> table]>>, columns |-> columns,
     values |-> [i \in DOMAIN values |-> [value |-> values[i]]]]

DeleteAst(table, where) ==
    [type |-> "delete", table |-> <<[table |-> table]>>, where |-> where]

DropAst(keyword, names) ==
    [type |-> "drop", keyword |-> keyword,
     name |-> [i \in DOMAIN names |-> [table |-> names[i]]]]

\* A limit node: value[0] is the limit, value[1] (when present) the offset.
Limit(values) == [type |-> "limit", value |-> values]

\* The column list "users.id as uid, history.client_id as cid".
JoinColumns ==
    <<[expr |-> ColOf("users", "id"), as |-> "uid"],
      [expr |-> ColOf("history", "client_id"), as |-> "cid"]>>

\* The ON expression "history.client_id = users.id".
OnClient == Bin("=", ColOf("history", "client_id"), ColOf("users", "id"))

\* Parser.astify for the statements the model issues.  "parse_error" stands
\* for the parser throwing on text it cannot parse.
Astify(sql) ==
    CASE sql = "insert into users (id) values (1)" ->
            InsertAst("users", <<"id">>, << <<Num(1)>> >>)
      [] sql = "insert into users (id) values ($1), ($2)" ->
            InsertAst("users", <<"id">>, << <<Var(1)>>, <<Var(2)>> >>)
      [] sql = "insert into users (id, name) values (2, $1)" ->
            InsertAst("users", <<"id", "name">>, << <<Num(2), Var(1)>> >>)
      [] sql = "insert into clients (id) values (1)" ->
            InsertAst("clients", <<"id">>, << <<Num(1)>> >>)
      [] sql = "insert into users (id) values (name)" ->
            InsertAst("users", <<"id">>, << <<Col("name")>> >>)
      [] sql = "select * from users" ->
            SelectAst(Star, "users", NoNode, NoNode)
      [] sql = "select * from users where id = $1" ->
            SelectAst(Star, "users", Bin("=", Col("id"), Var(1)), NoNode)
      [] sql = "select * from users limit 0" ->
            SelectAst(Star, "users", NoNode, Limit(<<Num(0)>>))
      [] sql = "select * from users limit 2" ->
            SelectAst(Star, "users", NoNode, Limit(<<Num(2)>>))
      [] sql = "select * from users limit 2 offset 1" ->
            SelectAst(Star, "users", NoNode, Limit(<<Num(2), Num(1)>>))
      [] sql = "select * from users limit $1" ->
            SelectAst(Star, "users", NoNode, Limit(<<Var(1)>>))
      [] sql = "select * from users limit $2 offset $1" ->
            SelectAst(Star, "users", NoNode, Limit(<<Var(2), Var(1)>>))
      [] sql = "select * from users order by id" ->
            SelectOrdered("users", <<OrderKey(Col("id"), "ASC")>>)
      [] sql = "select * from users order by id desc, name" ->
            SelectOrdered("users", <<OrderKey(Col("id"), "DESC"),
                                     OrderKey(Col("name"), "ASC")>>)
      [] sql = "select * from users order by $1 desc" ->
            SelectOrdered("users", <<OrderKey(Var(1), "DESC")>>)
      [] sql = "insert into users (id) values ($0)" ->
            InsertAst("users", <<"id">>, << <<Var(0)>> >>)
      [] sql = "insert into users (id) values ($x)" ->
            InsertAst("users", <<"id">>, << <<Var(NaN)>> >>)
      [] sql = "insert into users (id, name) values ($2, $1)" ->
            InsertAst("users", <<"id", "name">>, << <<Var(2), Var(1)>> >>)
      [] sql = "delete from users where id = $1" ->
            DeleteAst("users", Bin("=", Col("id"), Var(1)))
      [] sql = "delete from users" ->
            DeleteAst("users", NoNode)
      [] sql = "drop table users" ->
            DropAst("table", <<"users">>)
      [] sql = "drop table users, clients" ->
            DropAst("table", <<"users", "clients">>)
      [] sql = "insert into history (client_id) values ($1)" ->
            InsertAst("history", <<"client_id">>, << <<Var(1)>> >>)
      [] sql = "select users.id as uid, history.client_id as cid from users join history on history.client_id = users.id" ->
            SelectJoin(JoinColumns,
                       From("users") \o <<Join("history", "INNER JOIN", OnClient)>>)
      [] sql = "select users.id as uid, history.client_id as cid from users left join history on history.client_id = users.id" ->
            SelectJoin(JoinColumns,
                       From("users") \o <<Join("history", "LEFT JOIN", OnClient)>>)
      [] sql = "select users.id as uid, history.client_id as cid from users right join history on history.client_id = users.id" ->
            SelectJoin(JoinColumns,
                       From("users") \o <<Join("history", "RIGHT JOIN", OnClient)>>)
      [] sql = "select users.id as uid, history.client_id as cid from users join history on users.id = clients.id" ->
            SelectJoin(JoinColumns,
                       From("users")
                       \o <<Join("history", "INNER JOIN",
                                 Bin("=", ColOf("users", "id"), ColOf("clients", "id")))>>)
      [] sql = "select users.id as uid, history.client_id as cid from users join history on history.client_id = clients.id" ->
            SelectJoin(JoinColumns,
                       From("users")
                       \o <<Join("history", "INNER JOIN",
                                 Bin("=", ColOf("history", "client_id"),
                                     ColOf("clients", "id")))>>)
      [] sql = "select users.id as uid, history.client_id as cid from users join history on history.client_id = users.id join clients on clients.id = users.id" ->
            SelectJoin(JoinColumns,
                       From("users")
                       \o <<Join("history", "INNER JOIN", OnClient),
                            Join("clients", "INNER JOIN",
                                 Bin("=", ColOf("clients", "id"), ColOf("users", "id")))>>)
      [] sql = "select users.id as uid, history.client_id as cid from users join history on history.client_id = users.id and users.id = 1" ->
            SelectJoin(JoinColumns,
                       From("users")
                       \o <<Join("history", "INNER JOIN",
                                 Bin("AND", OnClient,
                                     Bin("=", ColOf("users", "id"), Num(1))))>>)
      [] sql = "update users set id = 2" ->
            [type |-> "update"]
      [] OTHER -> [type |-> "parse_error"]

\* ------------------------------------------------------- executor_utils.js
\* find_table: the table a statement works on.
find_table(sql) ==
    CASE sql.type = "drop" -> sql.name[1]
      [] sql.type = "select" -> sql.from[1].table
      [] OTHER -> sql.table[1].table

\* get_table_from_sql leaves the map with an entry for the table, an empty
\* array when there was none.
get_table_from_sql(map, sql) ==
    IF find_table(sql) \in DOMAIN map THEN map ELSE MapSet(map, find_table(sql), <<>>)

\* args[index] of a JavaScript array (0-based); undefined outside it.
ArgAt(args, index) ==
    IF index + 1 \in DOMAIN args THEN args[index + 1] ELSE Undefined

\* resolve_sql_param: index = (+exp.name - 1) || 0, where NaN - 1 is NaN and
\* NaN and 0 are the falsy values the || replaces by 0.
resolve_sql_param(exp, args) ==
    ArgAt(args, IF exp.name = NaN \/ exp.name - 1 = 0 THEN 0 ELSE exp.name - 1)

\* item[column] of a row object; undefined when the row has no such field.
Field(item, column) ==
    IF column \in DOMAIN item THEN item[column] ELSE Undefined

\* get_value is called with item = null for insert values and limits; a
\* column reference then throws (property read on null).
get_value_throws(has_item, exp) == exp.type = "column_ref" /\ ~has_item

\* get_value on a row (item) or on null (item = EmptyMap, has_item FALSE).
get_value(item, exp, args) ==
    CASE exp.type = "none" -> Undefined
      [] exp.type = "column_ref" -> Field(item, exp.column)
      [] exp.type = "var" -> resolve_sql_param(exp, args)
      [] OTHER -> exp.value

\* ------------------------------------------------------------- session.js
\* Session.#check_binary_exp; comparisons with undefined are false except
\* undefined == undefined.
check_binary_exp(left, right, operator) ==
    LET both == left # Undefined /\ right # Undefined
    IN CASE operator = "=" -> IF left = right THEN "true" ELSE "false"
         [] operator = "<>" -> IF left # right THEN "true" ELSE "false"
         [] operator = ">" -> IF both /\ left > right THEN "true" ELSE "false"
         [] operator = "<" -> IF both /\ left < right THEN "true" ELSE "false"
         [] operator \in {"<=", "=<"} -> IF both /\ left <= right THEN "true" ELSE "false"
         [] operator \in {">=", "=>"} -> IF both /\ left >= right THEN "true" ELSE "false"
         [] OTHER -> "throw"

RECURSIVE check_where(_, _, _)
\* Session.#check_where: "true", "false" or "throw"; every() and some()
\* stop at the first side that decides.
check_where(item, exp, args) ==
    IF exp.type # "binary_expr" THEN "throw"
    ELSE IF exp.operator \in {"AND", "OR"}
    THEN LET l == check_where(item, exp.left, args)
         IN IF exp.operator = "AND"
            THEN (IF l = "true" THEN check_where(item, exp.right, args) ELSE l)
            ELSE (IF l = "false" THEN check_where(item, exp.right, args) ELSE l)
    ELSE check_binary_exp(get_value(item, exp.left, args),
                          get_value(item, exp.right, args), exp.operator)

\* arr.filter(x => check_where(x, where, args))
FilterWhere(arr, where, args) ==
    [throws |-> \E i \in DOMAIN arr : check_where(arr[i], where, args) = "throw",
     rows |-> SelectSeq(arr, LAMBDA x : check_where(x, where, args) = "true")]

RECURSIVE ProjectRow(_, _, _, _)
\* The body of map_by_columns for one source item x: the copy built from the
\* first n columns.
ProjectRow(x, columns, default_table_name, n) ==
    IF n = 0 THEN EmptyMap
    ELSE LET copy == ProjectRow(x, columns, default_table_name, n - 1)
             column == columns[n]
             table_name == IF column.expr.table # "" THEN column.expr.table
                           ELSE default_table_name
         IN IF table_name \notin DOMAIN x THEN copy
            ELSE IF column.expr.column = "*"
            THEN [k \in (DOMAIN copy) \cup (DOMAIN x[table_name]) |->
                    IF k \in DOMAIN x[table_name] THEN x[table_name][k] ELSE copy[k]]
            ELSE MapSet(copy, IF column.as # "" THEN column.as ELSE column.expr.column,
                        Field(x[table_name], column.expr.column))

\* Session.#map_by_columns
map_by_columns(arr, columns, default_table_name) ==
    [throws |-> arr # <<>> /\ \E i \in DOMAIN columns : columns[i].expr.type # "column_ref",
     rows |-> [i \in DOMAIN arr |->
                 ProjectRow(arr[i], columns, default_table_name, Len(columns))]]

RECURSIVE tables_below(_)
\* The tables of the column references at or beneath a node of an ON
\* expression (the Set "tables" of #check_from_and_throw).
tables_below(op) ==
    CASE op.type = "column_ref" -> {op.table}
      [] op.type = "binary_expr" -> tables_below(op.left) \cup tables_below(op.right)
      [] OTHER -> {}

RECURSIVE check_on_operator(_, _)
\* The while loop of #check_from_and_throw over a side of an ON expression
\* and, for a nested binary expression, everything beneath it: TRUE when it
\* throws.  A nested binary expression must mention the joined table; a
\* node that is neither a column, a binary expression nor a value throws.
check_on_operator(op, table) ==
    CASE op.type = "column_ref" -> FALSE
      [] op.type = "binary_expr" ->
            \/ table \notin tables_below(op)
            \/ check_on_operator(op.left, table)
            \/ check_on_operator(op.right, table)
      [] op.type = "number" -> FALSE
      [] OTHER -> TRUE

\* node.table of a side of an ON expression; "" when it has none.
table_of(node) == IF node.type = "column_ref" THEN node.table ELSE ""

\* Session.#check_from_and_throw: TRUE when it throws.
check_from_and_throw(froms) ==
    \/ \E i \in DOMAIN froms :
          \/ froms[i].table = ""
          \/ /\ froms[i].join # ""
             /\ \/ froms[i].on.type # "binary_expr"
                \/ check_on_operator(froms[i].on.left, froms[i].table)
                \/ check_on_operator(froms[i].on.right, froms[i].table)
    \/ /\ Len(froms) > 1
       /\ \/ froms[1].join # ""
          \/ \E i \in 2..Len(froms) :
                \/ froms[i].join = ""
                \/ LET tables_in_join == {table_of(froms[i].on.left),
                                          table_of(froms[i].on.right)}
                   IN /\ froms[i].table \notin tables_in_join
                      /\ froms[i - 1].table \in tables_in_join

\* collection.find(predicate), given what the predicate says of each row,
\* as the position of the first row that satisfies it; 0 for undefined.
find_first(satisfies) ==
    IF \E j \in DOMAIN satisfies : satisfies[j]
    THEN CHOOSE j \in DOMAIN satisfies :
            satisfies[j] /\ \A k \in 1..(j - 1) : ~satisfies[k]
    ELSE 0

\* The comparison #resolve_from makes between a left and a right row.
join_matches(left_el, right_el, on) ==
    check_binary_exp(Field(left_el, on.left.column), Field(right_el, on.right.column),
                     on.operator) = "true"

\* The first loop of a join in #resolve_from, rows named by their position
\* in their table (0: undefined): every left row with the first right row
\* that matches it.
merge_left(left_collection, right_collection, on) ==
    [l \in DOMAIN left_collection |->
        [left |-> l,
         right |-> find_first([r \in DOMAIN right_collection |->
                                 join_matches(left_collection[l], right_collection[r], on)])]]

\* The second loop: every right row that is in no pair yet with the first
\* left row that matches it.
merge_right(left_collection, right_collection, on, merged) ==
    SelectSeq([r \in DOMAIN right_collection |->
                 [left |-> find_first([l \in DOMAIN left_collection |->
                                         join_matches(left_collection[l],
                                                      right_collection[r], on)]),
                  right |-> r]],
              LAMBDA m : \A i \in DOMAIN merged : merged[i].right # m.right)

\* The array "merged" of #resolve_from for one join.
merge_join(left_collection, right_collection, on) ==
    merge_left(left_collection, right_collection, on)
    \o merge_right(left_collection, right_collection, on,
                   merge_left(left_collection, right_collection, on))

\* The join kinds the switch of #resolve_from knows.
JoinKinds == {"INNER JOIN", "LEFT JOIN", "RIGHT JOIN", "CROSS JOIN", "FULL JOIN"}

\* The object #resolve_from makes of one element of "merged": the left row
\* under the left table's name and the right row under the right table's
\* name, each only when there is one.
join_object(m, on, left_collection, right_collection) ==
    LET with_left == IF m.left # 0
                     THEN MapSet(EmptyMap, on.left.table, left_collection[m.left])
                     ELSE EmptyMap
    IN IF m.right # 0
       THEN MapSet(with_left, on.right.table, right_collection[m.right])
       ELSE with_left

\* merged.map(...) of #resolve_from.
map_merged(merged, on, left_collection, right_collection) ==
    [i \in DOMAIN merged |-> join_object(merged[i], on, left_collection, right_collection)]

\* What #resolve_from pushes on raw_results for one join.  The array
\* join_result that the switch on the join kind filters is not used.
join_rows(tables, from) ==
    map_merged(merge_join(tables[from.on.left.table], tables[from.on.right.table], from.on),
               from.on, tables[from.on.left.table], tables[from.on.right.table])

\* One join of #resolve_from throws: a side of the ON names no existing
\* table (iterating undefined), the operator is unknown to
\* #check_binary_exp and a comparison is made, or the join kind is unknown.
join_throws(tables, from) ==
    \/ table_of(from.on.left) \notin DOMAIN tables
    \/ table_of(from.on.right) \notin DOMAIN tables
    \/ /\ tables[from.on.left.table] # <<>>
       /\ tables[from.on.right.table] # <<>>
       /\ check_binary_exp(Undefined, Undefined, from.on.operator) = "throw"
    \/ from.join \notin JoinKinds

RECURSIVE raw_results(_, _, _)
\* raw_results of #resolve_from after the joins arr_from[1] .. arr_from[n-1]
\* (0-based), one after the other.
raw_results(tables, arr_from, n) ==
    IF n <= 1 THEN <<>>
    ELSE raw_results(tables, arr_from, n - 1) \o join_rows(tables, arr_from[n])

RECURSIVE compress(_, _)
\* The array "compressed" of #resolve_from after the first n mapped values:
\* a value is pushed unless an earlier one has all its keys with equal rows
\* (Object.assign then writes equal rows over equal rows).
compress(mapped_values, n) ==
    IF n = 0 THEN <<>>
    ELSE LET compressed == compress(mapped_values, n - 1)
             mapped_value == mapped_values[n]
         IN IF \E i \in DOMAIN compressed :
                  /\ DOMAIN mapped_value \subseteq DOMAIN compressed[i]
                  /\ \A k \in DOMAIN mapped_value : compressed[i][k] = mapped_value[k]
            THEN compressed
            ELSE Append(compressed, mapped_value)

\* The array "compressed" of #resolve_from.
compress_all(mapped_values) == compress(mapped_values, Len(mapped_values))

\* Session.#resolve_from throws past #check_from_and_throw.
resolve_from_throws(tables, arr_from) ==
    /\ Len(arr_from) > 1
    /\ \E i \in 2..Len(arr_from) : join_throws(tables, arr_from[i])

\* Session.#resolve_from.  For a single-table FROM: every row tagged with
\* its table; no rows when the table does not exist (the map is not
\* changed).  For a chain: the compressed rows of its joins.
resolve_from(tables, arr_from) ==
    IF Len(arr_from) = 1
    THEN (IF arr_from[1].table \in DOMAIN tables
          THEN [i \in DOMAIN tables[arr_from[1].table] |->
                  [t \in {arr_from[1].table} |-> tables[arr_from[1].table][i]]]
          ELSE <<>>)
    ELSE compress_all(raw_results(tables, arr_from, Len(arr_from)))

\* arr.slice(from, to) of a JavaScript array.
Slice(arr, from, to) == SubSeq(arr, from + 1, Min(to, Len(arr)))

\* What a statement handler gives: the table map it leaves, whether it
\* returned (ok) or threw, and the PgResult it returned.
Outcome(tables, ok, has_rows, rows, rowCount) ==
    [tables |-> tables, ok |-> ok, has_rows |-> has_rows, rows |-> rows,
     rowCount |-> rowCount]

Thrown(tables) == Outcome(tables, FALSE, FALSE, <<>>, Undefined)

\* The limit / offset part of Session.#select.
select_limit(arr_source, limit, args) ==
    LET v0 == get_value(EmptyMap, limit.value[1], args)
        v1 == IF Len(limit.value) >= 2 THEN get_value(EmptyMap, limit.value[2], args)
              ELSE Undefined
        to == IF v0 = Undefined \/ v0 = 0 THEN Len(arr_source) ELSE v0
        from == IF v1 = Undefined THEN 0 ELSE v1
    IN Slice(arr_source, from, from + to)

\* lodash compareAscending on two property values: undefined sorts after
\* every defined value.
compareAscending(value, other) ==
    IF value = other THEN 0
    ELSE IF value = Undefined THEN 1
    ELSE IF other = Undefined THEN -1
    ELSE IF value < other THEN -1 ELSE 1

RECURSIVE compareMultiple(_, _, _, _, _)
\* lodash compareMultiple from key n on: the first key on which the rows
\* differ decides, turned round when its order is "desc"; 0 when they tie on
\* every key.
compareMultiple(object, other, iteratees, orders, n) ==
    IF n > Len(iteratees) THEN 0
    ELSE LET c == compareAscending(Field(object, iteratees[n]), Field(other, iteratees[n]))
         IN IF c # 0 THEN (IF orders[n] = "desc" THEN 0 - c ELSE c)
            ELSE compareMultiple(object, other, iteratees, orders, n + 1)

RECURSIVE orderBy(_, _, _, _)
\* _.orderBy(collection, iteratees, orders) on the first n rows: a stable
\* sort, each iteratee naming the property to compare.
orderBy(collection, iteratees, orders, n) ==
    IF n = 0 THEN <<>>
    ELSE LET sorted == orderBy(collection, iteratees, orders, n - 1)
             x == collection[n]
             before == {j \in DOMAIN sorted :
                          compareMultiple(x, sorted[j], iteratees, orders, 1) < 0}
             at == IF before = {} THEN Len(sorted) + 1
                   ELSE CHOOSE j \in before : \A k \in before : j <= k
         IN SubSeq(sorted, 1, at - 1) \o <<x>> \o SubSeq(sorted, at, Len(sorted))

\* The ORDER BY part of Session.#select: every key is evaluated with
\* get_value(null, key), and what it gives is the property _.orderBy sorts on.
select_orderby(arr_source, orderby, args) ==
    orderBy(arr_source,
            [i \in DOMAIN orderby |-> get_value(EmptyMap, orderby[i].expr, args)],
            [i \in DOMAIN orderby |-> IF orderby[i].type = "DESC" THEN "desc" ELSE "asc"],
            Len(arr_source))

\* The return of Session.#select: the rows and their number.
select_return(tables, arr_source) ==
    Outcome(tables, TRUE, TRUE, arr_source, Len(arr_source))

\* Session.#select from the limit on, given the ordered rows.
select_from_limit(tables, sql, args, arr_source) ==
    IF sql.limit.type = "none" THEN select_return(tables, arr_source)
    ELSE IF \E i \in DOMAIN sql.limit.value : get_value_throws(FALSE, sql.limit.value[i])
    THEN Thrown(tables)
    ELSE select_return(tables, select_limit(arr_source, sql.limit, args))

\* Session.#select from the ORDER BY on, given the outcome of the filter.
select_from_orderby(tables, sql, args, filtered) ==
    IF filtered.throws THEN Thrown(tables)
    ELSE IF sql.orderby = <<>> THEN select_from_limit(tables, sql, args, filtered.rows)
    ELSE IF \E i \in DOMAIN sql.orderby : get_value_throws(FALSE, sql.orderby[i].expr)
    THEN Thrown(tables)
    ELSE select_from_limit(tables, sql, args,
                           select_orderby(filtered.rows, sql.orderby, args))

\* Session.#select from the WHERE on, given the outcome of #map_by_columns.
select_from_where(tables, sql, args, mapped) ==
    IF mapped.throws THEN Thrown(tables)
    ELSE IF sql.where.type = "none"
    THEN select_from_orderby(tables, sql, args, [throws |-> FALSE, rows |-> mapped.rows])
    ELSE select_from_orderby(tables, sql, args, FilterWhere(mapped.rows, sql.where, args))

\* Session.#select
select(tables, sql, args) ==
    IF check_from_and_throw(sql.from) \/ resolve_from_throws(tables, sql.from)
    THEN Thrown(tables)
    ELSE select_from_where(tables, sql, args,
                           map_by_columns(resolve_from(tables, sql.from), sql.columns,
                                          sql.from[1].table))

\* The object Session.#insert builds for one value tuple: columns zipped
\* with values by position, a later value for the same key replacing an
\* earlier one; a value beyond the column list lands under "undefined".
insert_row(columns, value, args) ==
    LET key(i) == IF i <= Len(columns) THEN columns[i] ELSE "undefined"
        last(k) == CHOOSE i \in DOMAIN value :
                      key(i) = k /\ \A j \in DOMAIN value : key(j) = k => j <= i
    IN [k \in {key(i) : i \in DOMAIN value} |-> get_value(EmptyMap, value[last(k)], args)]

\* An insert that puts the new rows in front of the table's rows.
insert_in_front(tables, sql, args) ==
    LET created == get_table_from_sql(tables, sql)
        table == find_table(sql)
        throws == \E t \in DOMAIN sql.values :
                     /\ sql.values[t].value # <<>>
                     /\ \/ sql.columns = <<>>
                        \/ \E i \in DOMAIN sql.values[t].value :
                              get_value_throws(FALSE, sql.values[t].value[i])
        objs == [t \in DOMAIN sql.values |-> insert_row(sql.columns, sql.values[t].value, args)]
        to_insert == SelectSeq(objs, LAMBDA obj : DOMAIN obj # {})
    IN IF throws THEN Thrown(created)
       ELSE Outcome(MapSet(created, table, to_insert \o created[table]),
                    TRUE, FALSE, <<>>, Len(to_insert))

\* Session.#insert (without a returning clause)
insert(tables, sql, args) ==
    LET created == get_table_from_sql(tables, sql)
        table == find_table(sql)
        throws == \E t \in DOMAIN sql.values :
                     /\ sql.values[t].value # <<>>
                     /\ \/ sql.columns = <<>>
                        \/ \E i \in DOMAIN sql.values[t].value :
                              get_value_throws(FALSE, sql.values[t].value[i])
        objs == [t \in DOMAIN sql.values |-> insert_row(sql.columns, sql.values[t].value, args)]
        to_insert == SelectSeq(objs, LAMBDA obj : DOMAIN obj # {})
    IN IF throws THEN Thrown(created)
       ELSE Outcome(MapSet(created, table, created[table] \o to_insert),
                    TRUE, FALSE, <<>>, Len(to_insert))

\* A delete that, given no WHERE, removes every row of the table.
delete_truncates(tables, sql, args) ==
    LET created == get_table_from_sql(tables, sql)
        table == find_table(sql)
        to_delete == IF sql.where.type # "none"
                     THEN FilterWhere(created[table], sql.where, args)
                     ELSE [throws |-> FALSE, rows |-> created[table]]
        kept == IF sql.where.type # "none"
                THEN SelectSeq(created[table],
                               LAMBDA x : check_where(x, sql.where, args) # "true")
                ELSE <<>>
    IN IF to_delete.throws THEN Thrown(created)
       ELSE Outcome(MapSet(created, table, kept), TRUE, FALSE, <<>>, Len(to_delete.rows))

\* Session.#delete
delete(tables, sql, args) ==
    LET created == get_table_from_sql(tables, sql)
        table == find_table(sql)
        to_delete == IF sql.where.type # "none"
                     THEN FilterWhere(created[table], sql.where, args)
                     ELSE [throws |-> FALSE, rows |-> <<>>]
        kept == IF sql.where.type # "none"
                THEN SelectSeq(created[table],
                               LAMBDA x : check_where(x, sql.where, args) # "true")
                ELSE created[table]
    IN IF to_delete.throws THEN Thrown(created)
       ELSE Outcome(MapSet(created, table, kept), TRUE, FALSE, <<>>, Len(to_delete.rows))

RECURSIVE drop_tables(_, _, _)
\* The loop of Session.#drop over the first n names.
drop_tables(tables, name, n) ==
    IF n = 0 THEN tables
    ELSE MapDelete(drop_tables(tables, name, n - 1), name[n].table)

\* A drop that removes only the first table it names.
drop_first_only(tables, sql, args) ==
    IF sql.keyword = "table"
    THEN Outcome(MapDelete(tables, sql.name[1].table), TRUE, FALSE, <<>>, Undefined)
    ELSE Thrown(tables)

\* Session.#drop
drop(tables, sql, args) ==
    IF sql.keyword = "table"
    THEN Outcome(drop_tables(tables, sql.name, Len(sql.name)), TRUE, FALSE, <<>>, Undefined)
    ELSE Thrown(tables)

\* A Session object; NoSession is the null / undefined field.
NewSession == [exists |-> TRUE, tables |-> EmptyMap, history |-> <<>>]

NoSession == [exists |-> FALSE, tables |-> EmptyMap, history |-> <<>>]

\* Session.query with the history push moved behind the dispatch, so that a
\* statement that throws is not recorded.
SessionQueryPushLast(session, sql, args) ==
    LET parsed == Astify(sql)
        out == CASE parsed.type = "select" -> select(session.tables, parsed, args)
                 [] parsed.type = "insert" -> insert(session.tables, parsed, args)
                 [] parsed.type = "delete" -> delete(session.tables, parsed, args)
                 [] parsed.type = "drop" -> drop(session.tables, parsed, args)
                 [] OTHER -> Thrown(session.tables)
        pushed == IF out.ok THEN Append(session.history, [sql |-> sql, args |-> args])
                  ELSE session.history
    IN [session |-> [exists |-> TRUE, tables |-> out.tables, history |-> pushed],
        out |-> out]

\* Session.query: push {sql, args} on the history, parse, dispatch.  Gives
\* the session afterwards and the outcome of the statement.
SessionQuery(session, sql, args) ==
    LET parsed == Astify(sql)
        pushed == Append(session.history, [sql |-> sql, args |-> args])
        out == CASE parsed.type = "select" -> select(session.tables, parsed, args)
                 [] parsed.type = "insert" -> insert(session.tables, parsed, args)
                 [] parsed.type = "delete" -> delete(session.tables, parsed, args)
                 [] parsed.type = "drop" -> drop(session.tables, parsed, args)
                 [] OTHER -> Thrown(session.tables)
    IN [session |-> [exists |-> TRUE, tables |-> out.tables, history |-> pushed],
        out |-> out]

\* ------------------------------------------------------------ statements
\* The calls query(sql, args) the client makes through PgMock (the caller
\* always passes an args array).  "selec * from users" is text the parser
\* rejects.
Queries ==
    { [sql |-> "insert into users (id) values (1)", args |-> <<>>],
      [sql |-> "insert into users (id, name) values (2, $1)", args |-> <<1>>],
      [sql |-> "select * from users", args |-> <<>>],
      [sql |-> "delete from users where id = $1", args |-> <<1>>],
      [sql |-> "drop table users", args |-> <<>>],
      [sql |-> "update users set id = 2", args |-> <<>>],
      [sql |-> "selec * from users", args |-> <<>>] }

\* The calls made on a session that is driven on its own.
SessionQueries ==
    Queries
    \cup { [sql |-> "insert into users (id) values ($1), ($2)", args |-> <<2, 1>>],
           [sql |-> "insert into users (id) values ($1), ($2)", args |-> <<1>>],
           [sql |-> "insert into clients (id) values (1)", args |-> <<>>],
           [sql |-> "insert into users (id) values (name)", args |-> <<>>],
           [sql |-> "select * from users where id = $1", args |-> <<1>>],
           [sql |-> "select * from users limit 0", args |-> <<>>],
           [sql |-> "select * from users limit 2", args |-> <<>>],
           [sql |-> "select * from users limit 2 offset 1", args |-> <<>>],
           [sql |-> "delete from users", args |-> <<>>],
           [sql |-> "drop table users, clients", args |-> <<>>] }
    \cup { [sql |-> "select * from users limit $1", args |-> <<n>>] : n \in 0..MaxLimit }
    \cup { [sql |-> "select * from users limit $2 offset $1", args |-> <<m, n>>] :
              m \in 0..MaxOffset, n \in 0..MaxLimit }

\* ------------------------------------------------- unnamed/part_000 (PgMock)
\* The latest call and what came of it.
Call(op, sql, args, ok, has_rows, rows, rowCount) ==
    [op |-> op, sql |-> sql, args |-> args, ok |-> ok, has_rows |-> has_rows,
     rows |-> rows, rowCount |-> rowCount]

Returned(op) == Call(op, op, <<>>, TRUE, FALSE, <<>>, Undefined)

Threw(op) == Call(op, op, <<>>, FALSE, FALSE, <<>>, Undefined)

QueryCall(q, out) ==
    Call("query", q.sql, q.args, out.ok, out.has_rows, out.rows, out.rowCount)

\* The observer's value when no transaction is being followed.  phase is
\* "open" from a "begin" on a connected client while only statements other
\* than the keywords follow, "committed" / "rolledback" right after the
\* "commit" / "rollback" that ends such a run, "none" otherwise.
NotFollowing == [phase |-> "none", tables |-> EmptyMap, ops |-> <<>>]

Init ==
    /\ main_session = NoSession
    /\ transaction = NoSession
    /\ result = Returned("new")
    /\ since_begin = NotFollowing

\* A connect without the check for an existing main session.
ConnectAgain ==
    /\ main_session' = NewSession
    /\ result' = Returned("connect")
    /\ since_begin' = NotFollowing
    /\ UNCHANGED transaction

\* PgMock.connect
Connect ==
    IF ~main_session.exists
    THEN /\ main_session' = NewSession
         /\ result' = Returned("connect")
         /\ since_begin' = NotFollowing
         /\ UNCHANGED transaction
    ELSE /\ result' = Threw("connect")
         /\ UNCHANGED <<main_session, transaction, since_begin>>

\* PgMock.end
End ==
    IF main_session.exists
    THEN /\ main_session' = NoSession
         /\ result' = Returned("end")
         /\ since_begin' = NotFollowing
         /\ UNCHANGED transaction
    ELSE /\ result' = Threw("end")
         /\ UNCHANGED <<main_session, transaction, since_begin>>

\* PgMock.query for a statement that is none of "begin", "commit",
\* "rollback": to the transaction session when there is one, else to the
\* main session, else an error.
Query(q) ==
    IF transaction.exists
    THEN /\ Len(main_session.history) + Len(transaction.history) < MaxHistory
         /\ LET r == SessionQuery(transaction, q.sql, q.args)
            IN /\ transaction' = r.session
               /\ result' = QueryCall(q, r.out)
         /\ since_begin' = IF since_begin.phase = "open"
                           THEN [since_begin EXCEPT !.ops = Append(@, q)]
                           ELSE NotFollowing
         /\ UNCHANGED main_session
    ELSE IF main_session.exists
    THEN /\ Len(main_session.history) < MaxHistory
         /\ LET r == SessionQuery(main_session, q.sql, q.args)
            IN /\ main_session' = r.session
               /\ result' = QueryCall(q, r.out)
         /\ since_begin' = NotFollowing
         /\ UNCHANGED transaction
    ELSE /\ result' = QueryCall(q, Thrown(EmptyMap))
         /\ UNCHANGED <<main_session, transaction, since_begin>>

\* A begin whose transaction session starts from the main session's tables.
BeginWithMainStore ==
    IF transaction.exists
    THEN /\ result' = Threw("begin")
         /\ UNCHANGED <<main_session, transaction, since_begin>>
    ELSE /\ transaction' = [NewSession EXCEPT !.tables = main_session.tables]
         /\ result' = Returned("begin")
         /\ since_begin' = IF main_session.exists
                           THEN [phase |-> "open", tables |-> main_session.tables,
                                 ops |-> <<>>]
                           ELSE NotFollowing
         /\ UNCHANGED main_session

\* A begin without the check for an active transaction.
BeginAgain ==
    /\ transaction' = NewSession
    /\ result' = Returned("begin")
    /\ since_begin' = IF main_session.exists
                      THEN [phase |-> "open", tables |-> main_session.tables,
                            ops |-> <<>>]
                      ELSE NotFollowing
    /\ UNCHANGED main_session

\* PgMock.query("begin")
Begin ==
    IF transaction.exists
    THEN /\ result' = Threw("begin")
         /\ UNCHANGED <<main_session, transaction, since_begin>>
    ELSE /\ transaction' = NewSession
         /\ result' = Returned("begin")
         /\ since_begin' = IF main_session.exists
                           THEN [phase |-> "open", tables |-> main_session.tables,
                                 ops |-> <<>>]
                           ELSE NotFollowing
         /\ UNCHANGED main_session

RECURSIVE ReplaySkipFirst(_, _, _)
\* Replay with a loop that starts at the second history entry.
ReplaySkipFirst(session, history, n) ==
    IF n <= 1 THEN [session |-> session, failed_at |-> 0]
    ELSE LET before == ReplaySkipFirst(session, history, n - 1)
             r == SessionQuery(before.session, history[n].sql, history[n].args)
         IN IF before.failed_at # 0 THEN before
            ELSE IF ~before.session.exists
            THEN [session |-> before.session, failed_at |-> n]
            ELSE [session |-> r.session, failed_at |-> IF r.out.ok THEN 0 ELSE n]

RECURSIVE ReplayNewestFirst(_, _, _)
\* Replay that walks the history from its newest entry to its oldest.
ReplayNewestFirst(session, history, n) ==
    IF n = 0 THEN [session |-> session, failed_at |-> 0]
    ELSE LET before == ReplayNewestFirst(session, history, n - 1)
             entry == history[Len(history) - n + 1]
             r == SessionQuery(before.session, entry.sql, entry.args)
         IN IF before.failed_at # 0 THEN before
            ELSE IF ~before.session.exists
            THEN [session |-> before.session, failed_at |-> n]
            ELSE [session |-> r.session, failed_at |-> IF r.out.ok THEN 0 ELSE n]

RECURSIVE ReplayPastFailure(_, _, _)
\* Replay that goes on with the next entry after one has thrown, and
\* reports the first that threw.
ReplayPastFailure(session, history, n) ==
    IF n = 0 THEN [session |-> session, failed_at |-> 0]
    ELSE LET before == ReplayPastFailure(session, history, n - 1)
             r == SessionQuery(before.session, history[n].sql, history[n].args)
         IN IF ~before.session.exists
            THEN [session |-> before.session,
                  failed_at |-> IF before.failed_at # 0 THEN before.failed_at ELSE n]
            ELSE [session |-> r.session,
                  failed_at |-> IF before.failed_at # 0 THEN before.failed_at
                                ELSE IF r.out.ok THEN 0 ELSE n]

RECURSIVE Replay(_, _, _)
\* The commit loop over the first n history entries: each entry goes to the
\* main session's query, and the first one that throws ends the loop.
\* failed_at is the entry that threw, 0 when none did.
Replay(session, history, n) ==
    IF n = 0 THEN [session |-> session, failed_at |-> 0]
    ELSE LET before == Replay(session, history, n - 1)
             r == SessionQuery(before.session, history[n].sql, history[n].args)
         IN IF before.failed_at # 0 THEN before
            ELSE IF ~before.session.exists
            THEN [session |-> before.session, failed_at |-> n]
            ELSE [session |-> r.session, failed_at |-> IF r.out.ok THEN 0 ELSE n]

\* A commit that takes each entry off the transaction's history as it
\* replays it, so that a failed commit leaves only the entries from the one
\* that threw.
CommitForgetsReplayed ==
    IF ~transaction.exists
    THEN /\ result' = Threw("commit")
         /\ UNCHANGED <<main_session, transaction, since_begin>>
    ELSE /\ Len(main_session.history) < MaxHistory \/ transaction.history = <<>>
         /\ LET r == Replay(main_session, transaction.history, Len(transaction.history))
            IN /\ main_session' = r.session
               /\ transaction' =
                     IF r.failed_at = 0 THEN NoSession
                     ELSE [transaction EXCEPT
                             !.history = SubSeq(@, r.failed_at, Len(@))]
               /\ result' = IF r.failed_at = 0 THEN Returned("commit") ELSE Threw("commit")
         /\ since_begin' = IF since_begin.phase = "open"
                           THEN [since_begin EXCEPT !.phase = "committed"]
                           ELSE NotFollowing

\* A commit that discards the transaction whether or not the replay threw.
CommitAlwaysEnds ==
    IF ~transaction.exists
    THEN /\ result' = Threw("commit")
         /\ UNCHANGED <<main_session, transaction, since_begin>>
    ELSE /\ Len(main_session.history) < MaxHistory \/ transaction.history = <<>>
         /\ LET r == Replay(main_session, transaction.history, Len(transaction.history))
            IN /\ main_session' = r.session
               /\ transaction' = NoSession
               /\ result' = IF r.failed_at = 0 THEN Returned("commit") ELSE Threw("commit")
         /\ since_begin' = IF since_begin.phase = "open"
                           THEN [since_begin EXCEPT !.phase = "committed"]
                           ELSE NotFollowing

\* PgMock.query("commit")
Commit ==
    IF ~transaction.exists
    THEN /\ result' = Threw("commit")
         /\ UNCHANGED <<main_session, transaction, since_begin>>
    ELSE /\ Len(main_session.history) < MaxHistory \/ transaction.history = <<>>
         /\ LET r == Replay(main_session, transaction.history, Len(transaction.history))
            IN /\ main_session' = r.session
               /\ transaction' = IF r.failed_at = 0 THEN NoSession ELSE transaction
               /\ result' = IF r.failed_at = 0 THEN Returned("commit") ELSE Threw("commit")
         /\ since_begin' = IF since_begin.phase = "open"
                           THEN [since_begin EXCEPT !.phase = "committed"]
                           ELSE NotFollowing

\* A rollback that replays the transaction into the main session the way
\* commit does before discarding it.
RollbackReplays ==
    IF ~transaction.exists
    THEN /\ result' = Threw("rollback")
         /\ UNCHANGED <<main_session, transaction, since_begin>>
    ELSE /\ main_session' =
               Replay(main_session, transaction.history, Len(transaction.history)).session
         /\ transaction' = NoSession
         /\ result' = Returned("rollback")
         /\ since_begin' = IF since_begin.phase = "open"
                           THEN [since_begin EXCEPT !.phase = "rolledback"]
                           ELSE NotFollowing

\* PgMock.query("rollback")
Rollback ==
    IF ~transaction.exists
    THEN /\ result' = Threw("rollback")
         /\ UNCHANGED <<main_session, transaction, since_begin>>
    ELSE /\ transaction' = NoSession
         /\ result' = Returned("rollback")
         /\ since_begin' = IF since_begin.phase = "open"
                           THEN [since_begin EXCEPT !.phase = "rolledback"]
                           ELSE NotFollowing
         /\ UNCHANGED main_session

Next ==
    \/ Connect
    \/ End
    \/ \E q \in Queries : Query(q)
    \/ Begin
    \/ Commit
    \/ Rollback

Spec == Init /\ [][Next]_vars

\* ------------------------------------------------- a session on its own
\* A Session right after construction, driven directly through its query
\* method (main_session holds it).
SessionInit ==
    /\ main_session = NewSession
    /\ transaction = NoSession
    /\ result = Returned("new")
    /\ since_begin = NotFollowing

\* One call of Session.query on that session.
Execute(q) ==
    /\ Len(main_session.history) < MaxStatements
    /\ LET r == SessionQuery(main_session, q.sql, q.args)
       IN /\ main_session' = r.session
          /\ result' = QueryCall(q, r.out)
    /\ UNCHANGED <<transaction, since_begin>>

SessionNext == \E q \in SessionQueries : Execute(q)

SpecSession == SessionInit /\ [][SessionNext]_vars

\* ------------------------------------- ORDER BY and placeholder statements
\* Calls on a session that order their rows or name parameters in the ways
\* resolve_sql_param tells apart: $1, $2, $0 and a name that is no number.
StatementQueries ==
    { [sql |-> "insert into users (id) values (1)", args |-> <<>>],
      [sql |-> "insert into users (id) values ($0)", args |-> <<1>>],
      [sql |-> "insert into users (id) values ($0)", args |-> <<2, 1>>],
      [sql |-> "insert into users (id) values ($x)", args |-> <<2, 1>>],
      [sql |-> "insert into users (id) values ($1), ($2)", args |-> <<2, 1>>],
      [sql |-> "insert into users (id, name) values ($2, $1)", args |-> <<1, 2>>],
      [sql |-> "insert into users (id, name) values ($2, $1)", args |-> <<2, 2>>],
      [sql |-> "insert into users (id, name) values ($2, $1)", args |-> <<1>>],
      [sql |-> "select * from users", args |-> <<>>],
      [sql |-> "select * from users order by id", args |-> <<>>],
      [sql |-> "select * from users order by id desc, name", args |-> <<>>],
      [sql |-> "select * from users order by $1 desc", args |-> <<"id">>] }

StatementNext == \E q \in StatementQueries : Execute(q)

SpecStatements == SessionInit /\ [][StatementNext]_vars

\* --------------------------------------------------- deletes and drops
\* Calls on a session that fill users and clients, delete rows and drop
\* tables, existing or not.
TableQueries ==
    { [sql |-> "insert into users (id) values (1)", args |-> <<>>],
      [sql |-> "insert into users (id, name) values (2, $1)", args |-> <<1>>],
      [sql |-> "insert into users (id) values ($1), ($2)", args |-> <<2, 1>>],
      [sql |-> "insert into clients (id) values (1)", args |-> <<>>],
      [sql |-> "select * from users", args |-> <<>>],
      [sql |-> "delete from users where id = $1", args |-> <<1>>],
      [sql |-> "delete from users where id = $1", args |-> <<2>>],
      [sql |-> "delete from users where id = $1", args |-> <<>>],
      [sql |-> "delete from users", args |-> <<>>],
      [sql |-> "drop table users", args |-> <<>>],
      [sql |-> "drop table users, clients", args |-> <<>>] }

TableNext == \E q \in TableQueries : Execute(q)

SpecTables == SessionInit /\ [][TableNext]_vars

\* ------------------------------------------------------------------ joins
\* Calls on a session that fill users, history and clients and select from
\* chains of them.
JoinQueries ==
    { [sql |-> "insert into users (id) values (1)", args |-> <<>>],
      [sql |-> "insert into clients (id) values (1)", args |-> <<>>],
      [sql |-> "insert into history (client_id) values ($1)", args |-> <<1>>],
      [sql |-> "insert into history (client_id) values ($1)", args |-> <<2>>] }
    \cup { [sql |-> text, args |-> <<>>] : text \in
            { "select users.id as uid, history.client_id as cid from users join history on history.client_id = users.id",
              "select users.id as uid, history.client_id as cid from users left join history on history.client_id = users.id",
              "select users.id as uid, history.client_id as cid from users right join history on history.client_id = users.id",
              "select users.id as uid, history.client_id as cid from users join history on users.id = clients.id",
              "select users.id as uid, history.client_id as cid from users join history on history.client_id = clients.id",
              "select users.id as uid, history.client_id as cid from users join history on history.client_id = users.id join clients on clients.id = users.id",
              "select users.id as uid, history.client_id as cid from users join history on history.client_id = users.id and users.id = 1" } }

JoinNext == \E q \in JoinQueries : Execute(q)

SpecJoin == SessionInit /\ [][JoinNext]_vars

\* ================================================================ claims
RECURSIVE RunDirect(_, _, _)
\* The table map left by issuing the first n calls of ops, one after the
\* other, straight on a session that holds tables; a call that throws does
\* not keep the next one from being issued.
RunDirect(tables, ops, n) ==
    IF n = 0 THEN tables
    ELSE SessionQuery([exists |-> TRUE, tables |-> RunDirect(tables, ops, n - 1),
                       history |-> <<>>], ops[n].sql, ops[n].args).session.tables

\* C1: right after the rollback that ends a run begin; <non-keyword
\* statements>; rollback on a connected client, the main session holds the
\* table map it held at the begin and no transaction is active.
C1_RollbackRestoresMain ==
    (result.op = "rollback" /\ result.ok /\ since_begin.phase = "rolledback")
        => /\ main_session.exists
           /\ main_session.tables = since_begin.tables
           /\ ~transaction.exists

\* C1 witness: such a rollback after two statements in the transaction, at
\* least one of which would have changed the (non-empty) main store.
C1_Witness ==
    /\ result.op = "rollback" /\ result.ok /\ since_begin.phase = "rolledback"
    /\ Len(since_begin.ops) = 2
    /\ since_begin.tables # EmptyMap
    /\ RunDirect(since_begin.tables, since_begin.ops, 2) # since_begin.tables

C3_ReplayInOrder ==
    [][(result'.op = "commit" /\ result'.ok /\ transaction.exists /\ main_session.exists)
          => /\ ~transaction'.exists
             /\ main_session'.history = main_session.history \o transaction.history
             /\ main_session'.tables =
                   RunDirect(main_session.tables, transaction.history,
                             Len(transaction.history))]_vars

\* C3 witness: a successful commit has put two different statements behind
\* an older entry of the main history.
C3_Witness ==
    /\ result.op = "commit" /\ result.ok /\ ~transaction.exists
    /\ since_begin.phase = "committed"
    /\ Len(since_begin.ops) = 2 /\ since_begin.ops[1] # since_begin.ops[2]
    /\ Len(main_session.history) = 3
    /\ SubSeq(main_session.history, 2, 3) = since_begin.ops

\* C4: a commit that fails, fails at some entry k of the transaction's
\* history: entries 1..k were sent to main (k threw), none after k, the main
\* table map is the one left by entries 1..k (the effects of 1..k-1 stay),
\* and the transaction is kept as it was.
C4_FailedCommitKeepsPrefix ==
    [][(result'.op = "commit" /\ ~result'.ok /\ transaction.exists /\ main_session.exists)
          => LET k == Len(main_session'.history) - Len(main_session.history)
                 th == transaction.history
             IN /\ k \in 1..Len(th)
                /\ main_session'.history = main_session.history \o SubSeq(th, 1, k)
                /\ main_session'.tables = RunDirect(main_session.tables, th, k)
                /\ ~SessionQuery([exists |-> TRUE,
                                  tables |-> RunDirect(main_session.tables, th, k - 1),
                                  history |-> <<>>], th[k].sql, th[k].args).out.ok
                /\ \A j \in 1..(k - 1) :
                      SessionQuery([exists |-> TRUE,
                                    tables |-> RunDirect(main_session.tables, th, j - 1),
                                    history |-> <<>>], th[j].sql, th[j].args).out.ok
                /\ transaction' = transaction]_vars

\* C4 witness: a commit failed at the second of three entries, after the
\* first had changed the main store; the third would have changed it too.
C4_Witness ==
    /\ result.op = "commit" /\ ~result.ok /\ transaction.exists
    /\ since_begin.phase = "committed"
    /\ Len(transaction.history) = 3
    /\ Len(main_session.history) = 2
    /\ main_session.tables # since_begin.tables
    /\ RunDirect(main_session.tables, transaction.history, 3) # main_session.tables

\* C5 as stated: whenever a transaction is active a main session exists
\* (there being one transaction field, at most one transaction is active).
C5_TransactionInsideConnection ==
    transaction.exists => main_session.exists

\* C6: connect returns exactly when there is no main session and then
\* creates a fresh one; end returns exactly when there is one and then
\* discards it; the call that throws leaves the main session, its store
\* included, and the transaction as they were.
C6_ConnectDisconnect ==
    [][/\ result'.op = "connect"
          => /\ result'.ok <=> ~main_session.exists
             /\ result'.ok => main_session' = NewSession
             /\ ~result'.ok => main_session' = main_session /\ transaction' = transaction
       /\ result'.op = "end"
          => /\ result'.ok <=> main_session.exists
             /\ result'.ok => main_session' = NoSession
             /\ ~result'.ok => main_session' = main_session /\ transaction' = transaction]_vars

\* C6 witness: a connect has thrown on a connected client whose store holds
\* rows.
C6_Witness ==
    /\ result.op = "connect" /\ ~result.ok
    /\ main_session.exists
    /\ \E t \in DOMAIN main_session.tables : main_session.tables[t] # <<>>

\* C7: "begin" with a transaction active, and "commit" or "rollback" with
\* none, throw and leave the transaction (its history and store) and the
\* main session as they were.
C7_TransactionMisuse ==
    [][(\/ result'.op = "begin" /\ transaction.exists
        \/ result'.op \in {"commit", "rollback"} /\ ~transaction.exists)
          => /\ ~result'.ok
             /\ transaction' = transaction
             /\ main_session' = main_session]_vars

\* C7 witness: a "begin" has thrown while the transaction held a statement
\* and a row.
C7_Witness ==
    /\ result.op = "begin" /\ ~result.ok
    /\ transaction.exists
    /\ transaction.history # <<>>
    /\ \E t \in DOMAIN transaction.tables : transaction.tables[t] # <<>>

\* C8: every statement that reaches a session's query adds exactly the entry
\* {sql, args} of that call at the end of that session's history, whether
\* the statement then returns or throws (in parsing or in its handler).
C8_HistoryRecordsEveryCall ==
    [][result'.op = "query"
          => LET entry == [sql |-> result'.sql, args |-> result'.args]
             IN IF transaction.exists
                THEN transaction'.history = Append(transaction.history, entry)
                ELSE main_session.exists
                        => main_session'.history = Append(main_session.history, entry)]_vars

\* C8 witness: the parser has rejected the second statement of a
\* transaction, after one that threw in dispatch, and both are in the
\* history.
C8_Witness ==
    /\ result.op = "query" /\ ~result.ok /\ result.sql = "selec * from users"
    /\ transaction.exists
    /\ Len(transaction.history) = 2
    /\ transaction.history[1].sql = "update users set id = 2"
    /\ transaction.history[2] = [sql |-> result.sql, args |-> result.args]

\* The value a literal or a placeholder $n stands for in a statement: the
\* literal, or the n-th parameter.
ClaimValue(exp, args) ==
    IF exp.type = "var"
    THEN (IF exp.name \in DOMAIN args THEN args[exp.name] ELSE Undefined)
    ELSE exp.value

\* The rows an insert statement asks for, one per value tuple in the order
\* written, each giving the i-th column the i-th value.
InsertedRows(ast, args) ==
    [t \in DOMAIN ast.values |->
        [c \in {ast.columns[i] : i \in DOMAIN ast.columns} |->
            ClaimValue(ast.values[t].value[CHOOSE i \in DOMAIN ast.columns :
                                              ast.columns[i] = c], args)]]

RECURSIVE InsertedSoFar(_, _, _)
\* The rows the first n history entries have asked to insert into table,
\* in order, counted from the start or from the latest drop of the table;
\* valid while those entries are only inserts of literals and parameters,
\* selects and drops.
InsertedSoFar(history, n, table) ==
    IF n = 0 THEN [valid |-> TRUE, rows |-> <<>>]
    ELSE LET prev == InsertedSoFar(history, n - 1, table)
             ast == Astify(history[n].sql)
         IN IF ~prev.valid THEN prev
            ELSE CASE ast.type = "insert"
                         /\ \A t \in DOMAIN ast.values :
                               /\ Len(ast.values[t].value) = Len(ast.columns)
                               /\ \A i \in DOMAIN ast.values[t].value :
                                     ast.values[t].value[i].type \in {"number", "var"} ->
                        IF ast.table[1].table = table
                        THEN [valid |-> TRUE,
                              rows |-> prev.rows \o InsertedRows(ast, history[n].args)]
                        ELSE prev
                   [] ast.type = "select" -> prev
                   [] ast.type = "drop" /\ ast.keyword = "table" ->
                        IF \E i \in DOMAIN ast.name : ast.name[i].table = table
                        THEN [valid |-> TRUE, rows |-> <<>>]
                        ELSE prev
                   [] OTHER -> [valid |-> FALSE, rows |-> <<>>]

\* C9: a "select * from users" that follows only inserts (and selects) on a
\* table that was absent to begin with returns exactly the rows the inserts
\* asked for, in the order of the statements and of the tuples within a
\* statement, and rowCount is their number.
C9_SelectReturnsInserted ==
    (/\ result.op = "query" /\ result.sql = "select * from users"
     /\ main_session.history # <<>>
     /\ InsertedSoFar(main_session.history, Len(main_session.history) - 1, "users").valid)
        => LET asked == InsertedSoFar(main_session.history,
                                      Len(main_session.history) - 1, "users").rows
           IN /\ result.ok /\ result.has_rows
              /\ result.rows = asked
              /\ result.rowCount = Len(asked)

\* C9 witness: the select has followed two inserts, one of them with two
\* tuples, and the three rows are not all alike.
C9_Witness ==
    /\ result.op = "query" /\ result.sql = "select * from users" /\ result.ok
    /\ Len(main_session.history) = 3
    /\ Astify(main_session.history[1].sql).type = "insert"
    /\ Astify(main_session.history[2].sql).type = "insert"
    /\ InsertedSoFar(main_session.history, 2, "users").valid
    /\ Len(result.rows) = 3
    /\ result.rows[1] # result.rows[3]

\* The limit and the offset a select statement asks for (offset 0 when it
\* names none), and the rows it pages over.
AskedLimit(ast, args) == ClaimValue(ast.limit.value[1], args)

AskedOffset(ast, args) ==
    IF Len(ast.limit.value) >= 2 THEN ClaimValue(ast.limit.value[2], args) ELSE 0

Available(ast) ==
    IF ast.from[1].table \in DOMAIN main_session.tables
    THEN main_session.tables[ast.from[1].table]
    ELSE <<>>

\* C10 as stated: a select (no WHERE, no ORDER BY) with LIMIT n OFFSET m,
\* n >= 0 and m >= 0 given as literals or parameters, returns the rows at
\* positions m .. m+n-1 of the table, min(n, max(0, available - m)) of them.
C10_LimitOffset ==
    LET ast == Astify(result.sql)
    IN (/\ result.op = "query" /\ ast.type = "select"
        /\ ast.limit.type # "none" /\ ast.where.type = "none"
        /\ AskedLimit(ast, result.args) >= 0
        /\ AskedOffset(ast, result.args) >= 0)
          => LET n == AskedLimit(ast, result.args)
                 m == AskedOffset(ast, result.args)
                 all == Available(ast)
             IN /\ result.ok
                /\ result.rowCount = Min(n, Max(0, Len(all) - m))
                /\ result.rows = SubSeq(all, m + 1, Min(m + n, Len(all)))

\* The same for n >= 1 only.
C10_PositiveLimitOffset ==
    LET ast == Astify(result.sql)
    IN (/\ result.op = "query" /\ ast.type = "select"
        /\ ast.limit.type # "none" /\ ast.where.type = "none"
        /\ AskedLimit(ast, result.args) >= 1
        /\ AskedOffset(ast, result.args) >= 0)
          => LET n == AskedLimit(ast, result.args)
                 m == AskedOffset(ast, result.args)
                 all == Available(ast)
             IN /\ result.ok
                /\ result.rowCount = Min(n, Max(0, Len(all) - m))
                /\ result.rows = SubSeq(all, m + 1, Min(m + n, Len(all)))

\* C17: after a commit that failed, the transaction is still active with the
\* history it had (every statement issued in it), and a commit issued next
\* replays from the first entry again: it sends entries 1..k to main for some
\* k >= 1 and leaves the tables that running 1..k on top of the already
\* applied prefix gives.
C17_FailedCommitReplaysAgain ==
    [][(result.op = "commit" /\ ~result.ok /\ transaction.exists /\ main_session.exists)
          => /\ since_begin.phase = "committed" => transaction.history = since_begin.ops
             /\ result'.op = "commit"
                   => LET k == Len(main_session'.history) - Len(main_session.history)
                          th == transaction.history
                      IN /\ k \in 1..Len(th)
                         /\ main_session'.history =
                               main_session.history \o SubSeq(th, 1, k)
                         /\ main_session'.tables = RunDirect(main_session.tables, th, k)]_vars

\* C17 witness: two commits of the transaction "insert; update" have failed,
\* and the row of the insert is in main twice.
C17_Witness ==
    /\ result.op = "commit" /\ ~result.ok /\ transaction.exists
    /\ Len(transaction.history) = 2
    /\ transaction.history[1].sql = "insert into users (id) values (1)"
    /\ Len(main_session.history) = 4
    /\ "users" \in DOMAIN main_session.tables
    /\ main_session.tables["users"] = <<[id |-> 1], [id |-> 1]>>

\* A statement of a kind Session.query has no handler for.
Unsupported(sql) ==
    Astify(sql).type \notin {"select", "insert", "delete", "drop", "parse_error"}

\* The first entry of a history that holds an unsupported statement.
FirstUnsupported(history) ==
    CHOOSE i \in DOMAIN history :
        /\ Unsupported(history[i].sql)
        /\ \A j \in 1..(i - 1) : ~Unsupported(history[j].sql)

\* C18 as stated: an unsupported statement issued in a transaction throws
\* and is recorded in the transaction's history; from then on every commit
\* throws at that entry and keeps the transaction, which only a rollback
\* ends.
C18_CommitFailsAtUnsupported ==
    [][/\ (transaction.exists /\ result'.op = "query" /\ Unsupported(result'.sql))
             => /\ ~result'.ok
                /\ transaction'.history =
                      Append(transaction.history,
                             [sql |-> result'.sql, args |-> result'.args])
       /\ (transaction.exists
           /\ \E i \in DOMAIN transaction.history : Unsupported(transaction.history[i].sql))
             => /\ result'.op = "commit"
                   => /\ ~result'.ok
                      /\ transaction' = transaction
                      /\ main_session.exists
                            => Len(main_session'.history) - Len(main_session.history)
                                  = FirstUnsupported(transaction.history)
                /\ ~transaction'.exists => result'.op = "rollback"]_vars

\* C18 amended: the same, the commit throwing at that entry or at an earlier
\* entry that throws first.
C18_CommitFailsByUnsupported ==
    [][/\ (transaction.exists /\ result'.op = "query" /\ Unsupported(result'.sql))
             => /\ ~result'.ok
                /\ transaction'.history =
                      Append(transaction.history,
                             [sql |-> result'.sql, args |-> result'.args])
       /\ (transaction.exists
           /\ \E i \in DOMAIN transaction.history : Unsupported(transaction.history[i].sql))
             => /\ result'.op = "commit"
                   => /\ ~result'.ok
                      /\ transaction' = transaction
                      /\ main_session.exists
                            => Len(main_session'.history) - Len(main_session.history)
                                  \in 1..FirstUnsupported(transaction.history)
                /\ ~transaction'.exists => result'.op = "rollback"]_vars

\* C18 witness: a commit of "insert; update" has thrown at the update, the
\* insert is applied to main and the transaction is still there.
C18_Witness ==
    /\ result.op = "commit" /\ ~result.ok /\ transaction.exists
    /\ Len(transaction.history) = 2
    /\ ~Unsupported(transaction.history[1].sql)
    /\ Unsupported(transaction.history[2].sql)
    /\ Len(main_session.history) = 2
    /\ main_session.history = transaction.history
    /\ main_session.tables # EmptyMap

\* The rows the insert statements of a history ask for.
AskedRows(history) ==
    UNION { {InsertedRows(Astify(history[i].sql), history[i].args)[t] :
                t \in DOMAIN Astify(history[i].sql).values} :
            i \in {j \in DOMAIN history : Astify(history[j].sql).type = "insert"} }

\* C19: the transaction session's tables are those its own statements built
\* from an empty store; a select in the transaction returns only rows the
\* transaction's inserts asked for; and while the run begin; <statements> is
\* open the main table map is the one at the begin.
C19_PrivateStore ==
    /\ transaction.exists
          => /\ transaction.tables =
                   RunDirect(EmptyMap, transaction.history, Len(transaction.history))
             /\ (result.op = "query" /\ result.has_rows)
                   => \A i \in DOMAIN result.rows :
                         result.rows[i] \in AskedRows(transaction.history)
    /\ since_begin.phase = "open"
          => /\ main_session.exists
             /\ main_session.tables = since_begin.tables

\* C19 witness: main holds a row, and a select in a transaction that has
\* inserted a different row returns that row only.
C19_Witness ==
    /\ since_begin.phase = "open"
    /\ "users" \in DOMAIN main_session.tables
    /\ main_session.tables["users"] = <<[id |-> 1]>>
    /\ result.op = "query" /\ result.sql = "select * from users" /\ result.ok
    /\ result.rows = <<[id |-> 2, name |-> 1]>>

\* A select whose ORDER BY keys are all columns.
OrderedByColumns(ast) ==
    /\ ast.type = "select"
    /\ ast.orderby # <<>>
    /\ \A i \in DOMAIN ast.orderby : ast.orderby[i].expr.type = "column_ref"

\* Row x has to come before row y under the ORDER BY keys: on the first key
\* where they differ x has the smaller value (ASC) or the larger one (DESC).
ComesBefore(x, y, keys) ==
    \E i \in DOMAIN keys :
        /\ \A j \in 1..(i - 1) :
              Field(x, keys[j].expr.column) = Field(y, keys[j].expr.column)
        /\ IF keys[i].type = "DESC"
           THEN Field(x, keys[i].expr.column) > Field(y, keys[i].expr.column)
           ELSE Field(x, keys[i].expr.column) < Field(y, keys[i].expr.column)

\* C11 as stated: a "select * from users order by <columns>" returns, and
\* returns the rows of the table sorted by the keys in their directions, the
\* rows that tie on every key in their order in the table.
C11_OrderBySorts ==
    (result.op = "query" /\ OrderedByColumns(Astify(result.sql)))
       => LET keys == Astify(result.sql).orderby
              source == IF "users" \in DOMAIN main_session.tables
                        THEN main_session.tables["users"] ELSE <<>>
              Ties(r, rows) ==
                  SelectSeq(rows, LAMBDA x : ~ComesBefore(x, r, keys)
                                             /\ ~ComesBefore(r, x, keys))
          IN /\ result.ok
             /\ Len(result.rows) = Len(source)
             /\ \A i \in 1..(Len(result.rows) - 1) :
                   ~ComesBefore(result.rows[i + 1], result.rows[i], keys)
             /\ \A i \in DOMAIN source :
                   Ties(source[i], result.rows) = Ties(source[i], source)

\* The parameter the claim gives a placeholder: params[n-1] for n >= 1 and
\* params[0] for a name that is zero or no number; a literal is itself.
C13_Value(exp, args) ==
    IF exp.type # "var" THEN exp.value
    ELSE IF exp.name >= 1 THEN ArgAt(args, exp.name - 1)
    ELSE ArgAt(args, 0)

\* C13 as stated: an insert that returned has put, for each value tuple, a
\* row at the end of the table whose columns hold the parameters that C13
\* gives the placeholders.
C13_PlaceholderResolves ==
    (result.op = "query" /\ result.ok /\ Astify(result.sql).type = "insert")
       => LET ast == Astify(result.sql)
              rows == main_session.tables[ast.table[1].table]
              n == Len(ast.values)
          IN /\ Len(rows) >= n
             /\ \A t \in 1..n : \A i \in DOMAIN ast.columns :
                   rows[Len(rows) - n + t][ast.columns[i]]
                      = C13_Value(ast.values[t].value[i], result.args)

\* C14 as stated: after an insert or a select that returned, the store has
\* an entry for the table the statement names.
C14_FirstUseCreates ==
    (result.op = "query" /\ result.ok
     /\ Astify(result.sql).type \in {"insert", "select"})
       => find_table(Astify(result.sql)) \in DOMAIN main_session.tables

\* Whether a row satisfies a WHERE of the form column = literal-or-$n.
C15_Satisfies(x, where, args) ==
    Field(x, where.left.column) = ClaimValue(where.right, args)

\* C15: a delete step returns; it leaves in its table the rows that do not
\* satisfy the WHERE, in their order, and reports the number of rows that
\* do; without a WHERE it leaves every row and reports 0; every other table
\* is as before.
C15_DeleteRemovesMatches ==
    [][(result'.op = "query" /\ Astify(result'.sql).type = "delete")
          => LET ast == Astify(result'.sql)
                 t == ast.table[1].table
                 before == IF t \in DOMAIN main_session.tables
                           THEN main_session.tables[t] ELSE <<>>
                 Goes(x) == ast.where.type # "none"
                            /\ C15_Satisfies(x, ast.where, result'.args)
             IN /\ result'.ok
                /\ DOMAIN main_session'.tables = (DOMAIN main_session.tables) \cup {t}
                /\ main_session'.tables[t] = SelectSeq(before, LAMBDA x : ~Goes(x))
                /\ result'.rowCount = Len(SelectSeq(before, Goes))
                /\ \A other \in (DOMAIN main_session.tables) \ {t} :
                      main_session'.tables[other] = main_session.tables[other]]_vars

\* C15 witness: a delete with a WHERE has removed the one matching row of
\* two and left the other.
C15_Witness ==
    /\ result.op = "query" /\ result.sql = "delete from users where id = $1"
    /\ result.ok /\ result.rowCount = 1
    /\ Len(main_session.history) = 3
    /\ main_session.tables["users"] = <<[id |-> 2, name |-> 1]>>

\* C16: a drop table step returns and leaves exactly the tables it did not
\* name, each as it was; names of tables that do not exist change nothing.
C16_DropRemovesNamed ==
    [][(result'.op = "query" /\ Astify(result'.sql).type = "drop")
          => LET ast == Astify(result'.sql)
                 named == {ast.name[i].table : i \in DOMAIN ast.name}
             IN /\ result'.ok
                /\ DOMAIN main_session'.tables = (DOMAIN main_session.tables) \ named
                /\ \A other \in DOMAIN main_session'.tables :
                      main_session'.tables[other] = main_session.tables[other]]_vars

\* C16 witness: "drop table users, clients" has removed both tables, which
\* the two statements before it had filled.
C16_Witness ==
    /\ result.op = "query" /\ result.sql = "drop table users, clients" /\ result.ok
    /\ Len(main_session.history) = 3
    /\ Astify(main_session.history[1].sql).type = "insert"
    /\ Astify(main_session.history[2].sql).type = "insert"
    /\ main_session.history[1].sql # main_session.history[2].sql
    /\ Astify(main_session.history[1].sql).table[1].table
          # Astify(main_session.history[2].sql).table[1].table
    /\ main_session.tables = EmptyMap

\* A returned row was built with a row of the table: it has a column that
\* the select takes from that table.
HasRowOf(row, columns, table) ==
    \E i \in DOMAIN columns : columns[i].expr.table = table /\ columns[i].as \in DOMAIN row

\* C12 as stated: the rows a select returns from a two-table chain whose ON
\* links the two tables have a row of the first (left) table and a row of
\* the joined (right) table when the join is INNER, a row of the left table
\* when it is LEFT and a row of the right table when it is RIGHT.
C12_JoinKind ==
    (result.op = "query" /\ result.ok
     /\ Astify(result.sql).type = "select" /\ Len(Astify(result.sql).from) = 2)
       => LET ast == Astify(result.sql)
              left == ast.from[1].table
              right == ast.from[2].table
          IN \A i \in DOMAIN result.rows :
                /\ ast.from[2].join \in {"INNER JOIN", "LEFT JOIN"}
                      => HasRowOf(result.rows[i], ast.columns, left)
                /\ ast.from[2].join \in {"INNER JOIN", "RIGHT JOIN"}
                      => HasRowOf(result.rows[i], ast.columns, right)

\* The ON of the i-th entry of a FROM chain links the entry's table to the
\* entry before it: its two sides are columns, one of each table.
LinksToPreceding(from, i) ==
    /\ from[i].join # ""
    /\ from[i].on.type = "binary_expr"
    /\ {table_of(from[i].on.left), table_of(from[i].on.right)}
          = {from[i].table, from[i - 1].table}

\* C20 as stated: a select from a chain of two or more entries, one of which
\* does not link to the entry before it, throws and returns no rows.
C20_ChainValidation ==
    (result.op = "query" /\ Astify(result.sql).type = "select"
     /\ Len(Astify(result.sql).from) >= 2
     /\ \E i \in 2..Len(Astify(result.sql).from) :
           ~LinksToPreceding(Astify(result.sql).from, i))
       => ~result.ok /\ result.rows = <<>>

====
